---- MODULE Spec2Model ----
(***************************************************************************)
(* VidSum (src/video.py): one run of the Streamlit script.  The script     *)
(* reads the link, the language and the button, draws the thumbnail, and,  *)
(* when the button is pressed, runs extract_transcript_details and         *)
(* generate_gemini_content.  The three external services (transcript       *)
(* retrieval, translation, generative model) are the environment: every    *)
(* call returns or raises one of the outcomes the code distinguishes.      *)
(* Strings are sequences of one-character strings.                         *)
(***************************************************************************)
EXTENDS Integers, Sequences, FiniteSets, TLC

VARIABLES
    youtube_link,         \* st.text_input value (line 100)
    language_choice,      \* st.selectbox value (line 92)
    pressed,              \* st.button value (line 164)
    captionTracks,        \* environment: languages the video has a caption track in
    pc,                   \* position of the script
    video_id,             \* local of extract_transcript_details (line 30)
    transcript_text,      \* local of extract_transcript_details, tagged by Python type
    translated_segments,  \* local list of the fallback loop (line 44)
    idx,                  \* position of the for loop of line 45 (1-based)
    ret,                  \* value returned by extract_transcript_details (line 166)
    summary,              \* value returned by generate_gemini_content (line 168)
    exc,                  \* exception that left the script unhandled, or "none"
    out,                  \* elements the program rendered, in order
    calls                 \* calls made to the external services, in order

vars == << youtube_link, language_choice, pressed, captionTracks, pc, video_id,
           transcript_text, translated_segments, idx, ret, summary, exc, out, calls >>

------------------------------------------------------------------------------
(* Bounds of the model *)

MaxLinkLen == 2
MaxSegs == 2

(* Characters a link is typed from, texts of caption segments, texts the
   translator and the model return, and, per service, exceptions other than
   the ones the code names. *)
LinkChars == {"=", "a"}
SegTexts == {<< >>, <<"b">>, <<"c">>}
TransTexts == {<< >>, <<"x">>, <<"y">>}
ModelTexts == {<< >>, <<"s">>}
FetchErrors == {"TranscriptsDisabled", "ConnectionError"}
TranslateErrors == {"ConnectionError", "TypeError"}
ModelErrors == {"ResourceExhausted", "ValueError"}

StringsUpTo(S, n) == UNION {[1..k -> S] : k \in 0..n}

Links == StringsUpTo(LinkChars, MaxLinkLen)

\* LANGUAGES of googletrans (line 6), two of its keys
LANGUAGES == {"en", "fr"}

\* the summarization template (lines 13-25), abbreviated
prompt == <<"P", ":", " ">>

None == [type |-> "None", val |-> << >>]
Str(s) == [type |-> "str", val |-> s]
List(l) == [type |-> "list", val |-> l]

\* a caption track as get_transcript returns it: dicts with 'text' and 'start'
Segment(t, i) == [text |-> t, start |-> i - 1]
TrackOf(texts) == [i \in 1..Len(texts) |-> Segment(texts[i], i)]
Tracks == {TrackOf(ts) : ts \in StringsUpTo(SegTexts, MaxSegs)}

------------------------------------------------------------------------------
(* Pure functions *)

RECURSIVE Split(_)
\* str.split("="): the parts between the separators
Split(s) ==
    IF \A i \in 1..Len(s) : s[i] # "="
    THEN << s >>
    ELSE LET k == CHOOSE i \in 1..Len(s) :
                      s[i] = "=" /\ \A j \in 1..(i - 1) : s[j] # "="
         IN << SubSeq(s, 1, k - 1) >> \o Split(SubSeq(s, k + 1, Len(s)))

RECURSIVE Join(_)
\* ' '.join(strs)
Join(strs) ==
    IF Len(strs) = 0 THEN << >>
    ELSE IF Len(strs) = 1 THEN strs[1]
    ELSE strs[1] \o <<" ">> \o Join(Tail(strs))

\* [segment['text'] for segment in transcript_text]
TextsOf(track) == [i \in 1..Len(track) |-> track[i].text]

\* truth value of `if youtube_link:` / `if transcript_text:`
Truthy(v) == v.type # "None" /\ Len(v.val) > 0

\* variant of ModelInput: the operands of + the other way round
ModelInputSwapped(transcript, template) == transcript \o template

\* prompt + transcript_text, the argument of generate_content (line 81)
ModelInput(transcript, template) == template \o transcript

\* variant of Collect: the translation is put at the front of the list
CollectFront(segments, t) == << t >> \o segments

\* translated_segments.append(translated_text) (line 48)
Collect(segments, t) == Append(segments, t)

\* variant of OuterHandler: every exception starts the fallback
OuterHandlerAlwaysFallback(e) == "fallback"

\* the except clauses of the outer try (lines 35, 66)
OuterHandler(e) == IF e = "NoTranscriptFound" THEN "fallback" ELSE "error"

\* variant of FallbackHandler: the clause of line 60 is missing
FallbackHandlerGeneric(e) == "error"

\* the except clauses of the fallback try (lines 60, 63)
FallbackHandler(e) == IF e = "NoTranscriptFound" THEN "unavailable" ELSE "error"

\* variants of SegmentHandler: every exception aborts, every exception skips
SegmentHandlerAbortAll(e) == "abort"
SegmentHandlerSkipAll(e) == "skip"

\* the except clauses of the per-segment try (lines 49, 53)
SegmentHandler(e) == IF e = "AttributeError" THEN "skip" ELSE "abort"

\* st.warning / st.error / other elements, by the line that renders them
Element(kind, msg, arg) == [kind |-> kind, msg |-> msg, arg |-> arg]

\* a call to an external service and how it ended
Call(fn, arg, langs, outcome, value) ==
    [fn |-> fn, arg |-> arg, langs |-> langs, outcome |-> outcome, value |-> value]

------------------------------------------------------------------------------
(* What the external services can answer *)

\* get_transcript(video_id, languages=[language]) raises
PrimaryRaised ==
    (IF language_choice \in captionTracks THEN {} ELSE {"NoTranscriptFound"})
        \cup FetchErrors

\* get_transcript(video_id) raises
FallbackRaised == {"NoTranscriptFound"} \cup FetchErrors

\* translator.translate(...).text raises
TranslateRaised == {"AttributeError"} \cup TranslateErrors

------------------------------------------------------------------------------
(* The script *)

Init ==
    /\ youtube_link = << >>
    /\ language_choice = "en"
    /\ pressed = FALSE
    /\ captionTracks = {}
    /\ pc = "Start"
    /\ video_id = << >>
    /\ transcript_text = None
    /\ translated_segments = << >>
    /\ idx = 1
    /\ ret = None
    /\ summary = << >>
    /\ exc = "none"
    /\ out = << >>
    /\ calls = << >>

\* the widgets deliver the user's input (lines 92-104, 164)
UserInput ==
    /\ pc = "Start"
    /\ \E link \in Links, lang \in LANGUAGES, b \in BOOLEAN,
          tracks \in SUBSET LANGUAGES :
            /\ youtube_link' = link
            /\ language_choice' = lang
            /\ pressed' = b
            /\ captionTracks' = tracks
    /\ pc' = "Thumbnail"
    /\ UNCHANGED << video_id, transcript_text, translated_segments, idx, ret,
                    summary, exc, out, calls >>

\* line 106 with an empty link
ThumbnailSkip ==
    /\ pc = "Thumbnail"
    /\ ~Truthy(Str(youtube_link))
    /\ pc' = "Button"
    /\ UNCHANGED << youtube_link, language_choice, pressed, captionTracks,
                    video_id, transcript_text, translated_segments, idx, ret,
                    summary, exc, out, calls >>

\* lines 106-108
ThumbnailShow ==
    /\ pc = "Thumbnail"
    /\ Truthy(Str(youtube_link))
    /\ Len(Split(youtube_link)) >= 2
    /\ out' = Append(out, Element("image", "thumbnail", Split(youtube_link)[2]))
    /\ pc' = "Button"
    /\ UNCHANGED << youtube_link, language_choice, pressed, captionTracks,
                    video_id, transcript_text, translated_segments, idx, ret,
                    summary, exc, calls >>

\* line 107: split("=")[1] on a link without "=" raises IndexError, which
\* nothing at module level catches
ThumbnailIndexError ==
    /\ pc = "Thumbnail"
    /\ Truthy(Str(youtube_link))
    /\ Len(Split(youtube_link)) < 2
    /\ exc' = "IndexError"
    /\ pc' = "Crashed"
    /\ UNCHANGED << youtube_link, language_choice, pressed, captionTracks,
                    video_id, transcript_text, translated_segments, idx, ret,
                    summary, out, calls >>

\* line 164: the button was not pressed, the script ends
ButtonNotPressed ==
    /\ pc = "Button"
    /\ ~pressed
    /\ pc' = "Idle"
    /\ UNCHANGED << youtube_link, language_choice, pressed, captionTracks,
                    video_id, transcript_text, translated_segments, idx, ret,
                    summary, exc, out, calls >>

\* lines 164-165, 173-174
ButtonEmptyLink ==
    /\ pc = "Button"
    /\ pressed
    /\ ~Truthy(Str(youtube_link))
    /\ out' = Append(out, Element("warning", "EnterValidLink", << >>))
    /\ pc' = "Rejected"
    /\ UNCHANGED << youtube_link, language_choice, pressed, captionTracks,
                    video_id, transcript_text, translated_segments, idx, ret,
                    summary, exc, calls >>

\* lines 164-166: extract_transcript_details is entered
ButtonStart ==
    /\ pc = "Button"
    /\ pressed
    /\ Truthy(Str(youtube_link))
    /\ pc' = "FetchingPrimary"
    /\ UNCHANGED << youtube_link, language_choice, pressed, captionTracks,
                    video_id, transcript_text, translated_segments, idx, ret,
                    summary, exc, out, calls >>

inputs == << youtube_link, language_choice, pressed, captionTracks >>

\* lines 30-33 raise
PrimaryFailures ==
    IF Len(Split(youtube_link)) < 2 THEN {"IndexError"} ELSE PrimaryRaised

\* variant of PrimaryOk: the fetched track is sent through the translation loop
PrimaryOkThenTranslates ==
    /\ pc = "FetchingPrimary"
    /\ Len(Split(youtube_link)) >= 2
    /\ language_choice \in captionTracks
    /\ \E track \in Tracks :
        /\ transcript_text' = List(track)
        /\ calls' = Append(calls, Call("get_transcript", Split(youtube_link)[2],
                                       << language_choice >>, "ok", track))
    /\ video_id' = Split(youtube_link)[2]
    /\ translated_segments' = << >>
    /\ idx' = 1
    /\ pc' = "Translating"
    /\ UNCHANGED << inputs, ret, summary, exc, out >>

\* lines 30-33: the primary fetch returns the track of the requested language
PrimaryOk ==
    /\ pc = "FetchingPrimary"
    /\ Len(Split(youtube_link)) >= 2
    /\ language_choice \in captionTracks
    /\ \E track \in Tracks :
        /\ transcript_text' = List(track)
        /\ calls' = Append(calls, Call("get_transcript", Split(youtube_link)[2],
                                       << language_choice >>, "ok", track))
    /\ video_id' = Split(youtube_link)[2]
    /\ pc' = "Assembling"
    /\ UNCHANGED << inputs, translated_segments, idx, ret, summary, exc, out >>

\* what the failed try block of lines 30-33 leaves behind: the call, when
\* line 30 got as far as making it
PrimaryAttempt(e) ==
    IF e = "IndexError"
    THEN /\ UNCHANGED << video_id, calls >>
    ELSE /\ video_id' = Split(youtube_link)[2]
         /\ calls' = Append(calls, Call("get_transcript", Split(youtube_link)[2],
                                        << language_choice >>, e, << >>))

\* lines 35-38: no track in the requested language, the fallback is announced
PrimaryNoTranscript ==
    /\ pc = "FetchingPrimary"
    /\ \E e \in PrimaryFailures :
        /\ OuterHandler(e) = "fallback"
        /\ PrimaryAttempt(e)
    /\ out' = Append(out, Element("warning", "TranscriptNotAvailableIn",
                                  language_choice))
    /\ pc' = "FetchingFallback"
    /\ UNCHANGED << inputs, transcript_text, translated_segments, idx, ret,
                    summary, exc >>

\* lines 66-68: any other exception of the primary fetch
PrimaryError ==
    /\ pc = "FetchingPrimary"
    /\ \E e \in PrimaryFailures :
        /\ OuterHandler(e) = "error"
        /\ PrimaryAttempt(e)
        /\ out' = Append(out, Element("error", "ErrorOccurred", e))
    /\ ret' = None
    /\ pc' = "Returned"
    /\ UNCHANGED << inputs, transcript_text, translated_segments, idx,
                    summary, exc >>

\* lines 40-44: the language-less fetch returns a track
FallbackOk ==
    /\ pc = "FetchingFallback"
    /\ captionTracks # {}
    /\ \E track \in Tracks :
        /\ transcript_text' = List(track)
        /\ calls' = Append(calls, Call("get_transcript", video_id, << >>,
                                       "ok", track))
    /\ translated_segments' = << >>
    /\ idx' = 1
    /\ pc' = "Translating"
    /\ UNCHANGED << inputs, video_id, ret, summary, exc, out >>

\* lines 60-62: the language-less fetch finds no transcript
FallbackNoTranscript ==
    /\ pc = "FetchingFallback"
    /\ \E e \in FallbackRaised :
        /\ FallbackHandler(e) = "unavailable"
        /\ calls' = Append(calls, Call("get_transcript", video_id, << >>,
                                       e, << >>))
    /\ out' = Append(out, Element("error", "NoTranscriptAvailableIn",
                                  language_choice))
    /\ ret' = None
    /\ pc' = "Returned"
    /\ UNCHANGED << inputs, video_id, transcript_text, translated_segments,
                    idx, summary, exc >>

\* lines 63-65: any other exception of the language-less fetch
FallbackError ==
    /\ pc = "FetchingFallback"
    /\ \E e \in FallbackRaised :
        /\ FallbackHandler(e) = "error"
        /\ calls' = Append(calls, Call("get_transcript", video_id, << >>,
                                       e, << >>))
        /\ out' = Append(out, Element("error", "ErrorDuringTranslation", e))
    /\ ret' = None
    /\ pc' = "Returned"
    /\ UNCHANGED << inputs, video_id, transcript_text, translated_segments,
                    idx, summary, exc >>

\* translator.translate(segment['text'], src=language, dest='en') (line 47)
TranslateCall(outcome, value) ==
    Call("translate", transcript_text.val[idx].text,
         << language_choice, "en" >>, outcome, value)

\* lines 45-48: a segment is translated and appended
TranslateOk ==
    /\ pc = "Translating"
    /\ idx <= Len(transcript_text.val)
    /\ \E t \in TransTexts :
        /\ translated_segments' = Collect(translated_segments, t)
        /\ calls' = Append(calls, TranslateCall("ok", t))
    /\ idx' = idx + 1
    /\ UNCHANGED << inputs, pc, video_id, transcript_text, ret, summary, exc,
                    out >>

\* variant of TranslateSkip: the skipped segment is tried again
TranslateSkipRetries ==
    /\ pc = "Translating"
    /\ idx <= Len(transcript_text.val)
    /\ \E e \in TranslateRaised :
        /\ SegmentHandler(e) = "skip"
        /\ calls' = Append(calls, TranslateCall(e, << >>))
    /\ out' = Append(out, Element("error", "TranslationErrorForSegment",
                                  transcript_text.val[idx].text))
    /\ UNCHANGED << inputs, pc, video_id, transcript_text, translated_segments,
                    idx, ret, summary, exc >>

\* lines 49-52: the segment is skipped, the loop goes on
TranslateSkip ==
    /\ pc = "Translating"
    /\ idx <= Len(transcript_text.val)
    /\ \E e \in TranslateRaised :
        /\ SegmentHandler(e) = "skip"
        /\ calls' = Append(calls, TranslateCall(e, << >>))
    /\ out' = Append(out, Element("error", "TranslationErrorForSegment",
                                  transcript_text.val[idx].text))
    /\ idx' = idx + 1
    /\ UNCHANGED << inputs, pc, video_id, transcript_text, translated_segments,
                    ret, summary, exc >>

\* lines 53-55: the function returns None from inside the loop
TranslateAbort ==
    /\ pc = "Translating"
    /\ idx <= Len(transcript_text.val)
    /\ \E e \in TranslateRaised :
        /\ SegmentHandler(e) = "abort"
        /\ calls' = Append(calls, TranslateCall(e, << >>))
        /\ out' = Append(out, Element("error", "UnexpectedErrorDuringTranslation", e))
    /\ ret' = None
    /\ pc' = "Returned"
    /\ UNCHANGED << inputs, video_id, transcript_text, translated_segments,
                    idx, summary, exc >>

\* line 58: the loop is over, the translated segments are joined
JoinTranslated ==
    /\ pc = "Translating"
    /\ idx > Len(transcript_text.val)
    /\ transcript_text' = Str(Join(translated_segments))
    /\ pc' = "Assembling"
    /\ UNCHANGED << inputs, video_id, translated_segments, idx, ret, summary,
                    exc, out, calls >>

\* lines 70-76
Assemble ==
    /\ pc = "Assembling"
    /\ ret' = IF transcript_text.type = "list"
              THEN Str(Join(TextsOf(transcript_text.val)))
              ELSE transcript_text
    /\ pc' = "Returned"
    /\ UNCHANGED << inputs, video_id, transcript_text, translated_segments,
                    idx, summary, exc, out, calls >>

\* lines 166-167: a transcript came back, the model is asked
TranscriptPresent ==
    /\ pc = "Returned"
    /\ Truthy(ret)
    /\ pc' = "Summarizing"
    /\ UNCHANGED << inputs, video_id, transcript_text, translated_segments,
                    idx, ret, summary, exc, out, calls >>

\* lines 166-167, 171-172: None or an empty transcript came back
TranscriptMissing ==
    /\ pc = "Returned"
    /\ ~Truthy(ret)
    /\ out' = Append(out, Element("warning", "CouldNotRetrieve", << >>))
    /\ pc' = "Failed"
    /\ UNCHANGED << inputs, video_id, transcript_text, translated_segments,
                    idx, ret, summary, exc, calls >>

\* lines 168-170 and 79-82: the model answers and the summary is rendered
SummarizeOk ==
    /\ pc = "Summarizing"
    /\ \E text \in ModelTexts :
        /\ calls' = Append(calls, Call("generate_content",
                                       ModelInput(ret.val, prompt), << >>,
                                       "ok", text))
        /\ summary' = text
        /\ out' = out \o << Element("markdown", "SummaryHeader", << >>),
                            Element("write", "summary", text) >>
    /\ pc' = "Done"
    /\ UNCHANGED << inputs, video_id, transcript_text, translated_segments,
                    idx, ret, exc >>

\* lines 168 and 79-82: generate_content or response.text raises; nothing
\* in the script catches it
SummarizeRaises ==
    /\ pc = "Summarizing"
    /\ \E e \in ModelErrors :
        /\ calls' = Append(calls, Call("generate_content",
                                       ModelInput(ret.val, prompt), << >>,
                                       e, << >>))
        /\ exc' = e
    /\ pc' = "Crashed"
    /\ UNCHANGED << inputs, video_id, transcript_text, translated_segments,
                    idx, ret, summary, out >>

Next ==
    \/ UserInput
    \/ ThumbnailSkip \/ ThumbnailShow \/ ThumbnailIndexError
    \/ ButtonNotPressed \/ ButtonEmptyLink \/ ButtonStart
    \/ PrimaryOk \/ PrimaryNoTranscript \/ PrimaryError
    \/ FallbackOk \/ FallbackNoTranscript \/ FallbackError
    \/ TranslateOk \/ TranslateSkip \/ TranslateAbort \/ JoinTranslated
    \/ Assemble \/ TranscriptPresent \/ TranscriptMissing
    \/ SummarizeOk \/ SummarizeRaises

Spec == Init /\ [][Next]_vars

------------------------------------------------------------------------------
(* Reading the run: the calls by service, the rendered elements *)

IsPrimary(c) == c.fn = "get_transcript" /\ Len(c.langs) = 1
IsFallback(c) == c.fn = "get_transcript" /\ Len(c.langs) = 0
IsTranslate(c) == c.fn = "translate"
IsModel(c) == c.fn = "generate_content"
IsTranslated(c) == c.fn = "translate" /\ c.outcome = "ok"

PrimaryCalls == SelectSeq(calls, IsPrimary)
FallbackCalls == SelectSeq(calls, IsFallback)
TranslateCalls == SelectSeq(calls, IsTranslate)
ModelCalls == SelectSeq(calls, IsModel)

ValuesOf(cs) == [i \in 1..Len(cs) |-> cs[i].value]

\* the translations that came back, in the order of the calls
KeptTranslations == ValuesOf(SelectSeq(calls, IsTranslated))

PrimarySucceeded == Len(PrimaryCalls) > 0 /\ PrimaryCalls[1].outcome = "ok"
PrimaryNoTrack ==
    Len(PrimaryCalls) > 0 /\ PrimaryCalls[1].outcome = "NoTranscriptFound"
PrimaryFailed ==
    Len(PrimaryCalls) > 0
        /\ PrimaryCalls[1].outcome \notin {"ok", "NoTranscriptFound"}
FallbackSucceeded == Len(FallbackCalls) > 0 /\ FallbackCalls[1].outcome = "ok"
FallbackNoTrack ==
    Len(FallbackCalls) > 0 /\ FallbackCalls[1].outcome = "NoTranscriptFound"
FallbackFailed ==
    Len(FallbackCalls) > 0
        /\ FallbackCalls[1].outcome \notin {"ok", "NoTranscriptFound"}
Skipped(k) == TranslateCalls[k].outcome = "AttributeError"
HardFailed(k) == TranslateCalls[k].outcome \notin {"ok", "AttributeError"}
SomeSkipped == \E k \in 1..Len(TranslateCalls) : Skipped(k)
HardFailure == \E k \in 1..Len(TranslateCalls) : HardFailed(k)
ModelFailed == Len(ModelCalls) > 0 /\ ModelCalls[1].outcome # "ok"

Has(kind, msg) ==
    \E i \in 1..Len(out) : out[i].kind = kind /\ out[i].msg = msg
HasWith(kind, msg, arg) ==
    \E i \in 1..Len(out) :
        out[i].kind = kind /\ out[i].msg = msg /\ out[i].arg = arg

Terminal == pc \in {"Done", "Failed", "Crashed", "Idle", "Rejected"}

\* extract_transcript_details has returned
HasReturned == pc \in {"Returned", "Summarizing", "Done", "Failed"}
                   \/ Len(ModelCalls) > 0

RECURSIVE Offset(_, _)
\* where the i-th string starts in the single-space join of strs
Offset(strs, i) ==
    IF i = 1 THEN 0 ELSE Offset(strs, i - 1) + Len(strs[i - 1]) + 1

\* s is the strings of strs in order, one space between neighbours
IsSpaceJoin(s, strs) ==
    IF Len(strs) = 0 THEN s = << >>
    ELSE /\ Len(s) = Offset(strs, Len(strs)) + Len(strs[Len(strs)])
         /\ \A i \in 1..Len(strs) :
              /\ SubSeq(s, Offset(strs, i) + 1, Offset(strs, i) + Len(strs[i]))
                    = strs[i]
              /\ i > 1 => s[Offset(strs, i)] = " "

------------------------------------------------------------------------------
(* C1 *)

\* C1, as stated: when the primary fetch succeeds, extract_transcript_details
\* returns a non-empty transcript and neither the language-less fetch nor
\* the translator is called.
C1_NonEmptyTranscript ==
    PrimarySucceeded =>
        /\ FallbackCalls = << >>
        /\ TranslateCalls = << >>
        /\ HasReturned => ret.type = "str" /\ Len(ret.val) > 0

\* C1, amended: when the primary fetch succeeds, neither the language-less
\* fetch nor the translator is called and no fallback warning is shown, and
\* extract_transcript_details returns a string that is empty exactly when the
\* track has no segment or is one segment of empty text.
C1_NoFallbackAfterPrimary ==
    PrimarySucceeded =>
        /\ FallbackCalls = << >>
        /\ TranslateCalls = << >>
        /\ ~Has("warning", "TranscriptNotAvailableIn")
        /\ HasReturned =>
            LET track == PrimaryCalls[1].value IN
            /\ ret.type = "str"
            /\ Len(ret.val) = 0 <=>
                  \/ Len(track) = 0
                  \/ Len(track) = 1 /\ track[1].text = << >>

C1_Witness ==
    /\ PrimarySucceeded
    /\ Len(PrimaryCalls[1].value) = 2
    /\ pc = "Done"

(* C2 *)

\* C2: on the fallback path without a hard translation failure, every segment
\* of the track is sent to the translator once, in track order, and the
\* returned transcript is the single-space join of the translations that
\* came back, in that order: at most as many as the track has segments.
C2_FallbackTranscript ==
    (FallbackSucceeded /\ ~HardFailure /\ HasReturned) =>
        LET track == FallbackCalls[1].value IN
        /\ PrimaryNoTrack
        /\ Len(TranslateCalls) = Len(track)
        /\ \A k \in 1..Len(track) : TranslateCalls[k].arg = track[k].text
        /\ Len(KeptTranslations) <= Len(track)
        /\ ret.type = "str"
        /\ IsSpaceJoin(ret.val, KeptTranslations)

C2_Witness ==
    /\ FallbackSucceeded
    /\ pc = "Summarizing"
    /\ Len(FallbackCalls[1].value) = 2
    /\ Len(KeptTranslations) = 2
    /\ KeptTranslations[1] # KeptTranslations[2]

(* C3 *)

\* C3, as stated: whatever segments fail with AttributeError, when no other
\* failure occurs the run reaches the Summarizer.
C3_AlwaysReachesSummarizer ==
    (FallbackSucceeded /\ SomeSkipped /\ ~HardFailure /\ Terminal) =>
        Len(ModelCalls) > 0

\* C3, amended: a segment whose translation raises AttributeError is reported
\* and dropped, the loop goes on with the next segment and the function does
\* not return None because of it; when no other exception is raised the
\* transcript is the join of the remaining translations, and
\* generate_gemini_content is called with it exactly when it is not empty.
C3_SkipAndContinue ==
    \A k \in 1..Len(TranslateCalls) :
        Skipped(k) =>
            LET track == FallbackCalls[1].value IN
            /\ HasWith("error", "TranslationErrorForSegment", track[k].text)
            /\ \/ Len(TranslateCalls) > k
               \/ pc = "Translating" /\ idx = k + 1
               \/ pc # "Translating" /\ k = Len(track)
            /\ (HasReturned /\ ~HardFailure) =>
                  /\ ret.type = "str"
                  /\ IsSpaceJoin(ret.val, KeptTranslations)
            /\ (Terminal /\ ~HardFailure) =>
                  /\ Len(ModelCalls) > 0 <=> Len(ret.val) > 0
                  /\ Len(ModelCalls) = 0 =>
                        pc = "Failed" /\ Has("warning", "CouldNotRetrieve")
            /\ Len(ModelCalls) > 0 =>
                  ModelCalls[1].arg = prompt \o ret.val

C3_Witness ==
    /\ FallbackSucceeded
    /\ Len(TranslateCalls) = 2
    /\ TranslateCalls[1].outcome = "ok"
    /\ Skipped(2)
    /\ pc = "Done"

(* C4 *)

\* C4, as stated: for a video without any caption track the run ends with the
\* "No transcript available in <language>" error and the Summarizer is never
\* called.
C4_EndsNoTranscriptAvailable ==
    (captionTracks = {} /\ Len(PrimaryCalls) > 0) =>
        /\ Len(ModelCalls) = 0
        /\ Terminal =>
              pc = "Failed" /\ Has("error", "NoTranscriptAvailableIn")

\* C4, amended: for a video without any caption track no segment is
\* translated, the Summarizer is never called and the run ends Failed with
\* None returned; the error rendered is "No transcript available in
\* <language>" exactly when both fetches raised NoTranscriptFound, the generic
\* "An error occurred" with its cause when the primary fetch raised anything
\* else, and "An error occurred during translation" with its cause when the
\* language-less fetch raised anything else.
C4_NoTrackFails ==
    (captionTracks = {} /\ Len(PrimaryCalls) > 0) =>
        /\ Len(ModelCalls) = 0
        /\ Len(TranslateCalls) = 0
        /\ pc \in {"FetchingFallback", "Returned", "Failed"}
        /\ pc = "FetchingFallback" <=> (PrimaryNoTrack /\ Len(FallbackCalls) = 0)
        /\ pc # "FetchingFallback" =>
            /\ ret = None
            /\ Has("error", "NoTranscriptAvailableIn")
                  <=> (PrimaryNoTrack /\ FallbackNoTrack)
            /\ Has("error", "ErrorOccurred") <=> PrimaryFailed
            /\ PrimaryFailed =>
                  HasWith("error", "ErrorOccurred", PrimaryCalls[1].outcome)
            /\ Has("error", "ErrorDuringTranslation") <=> FallbackFailed
            /\ FallbackFailed =>
                  HasWith("error", "ErrorDuringTranslation",
                          FallbackCalls[1].outcome)
        /\ pc = "Failed" => Has("warning", "CouldNotRetrieve")

C4_Witness ==
    /\ captionTracks = {}
    /\ PrimaryNoTrack
    /\ FallbackNoTrack
    /\ pc = "Failed"

(* C5 *)

\* C5: a non-empty link without "=" ends the run with a warning to the
\* user, no exception left unhandled and no call to any external service.
C5_InvalidReferenceWarned ==
    (Len(youtube_link) > 0 /\ Len(Split(youtube_link)) < 2) =>
        /\ calls = << >>
        /\ Terminal =>
              /\ exc = "none"
              /\ \E i \in 1..Len(out) : out[i].kind = "warning"

(* C6 *)

\* the error messages of the fetch and translation conditions (lines 51, 54,
\* 61, 64, 67)
FetchAndTranslationMessages ==
    {"TranslationErrorForSegment", "UnexpectedErrorDuringTranslation",
     "NoTranscriptAvailableIn", "ErrorDuringTranslation", "ErrorOccurred"}

\* C6: a run that ended in NoTranscriptAvailable, FetchFailed,
\* TranslationFailed or SummarizationFailed has rendered an error message of
\* its own for that condition: none of these failures ends the run silently
\* or as an exception nobody handled, and no two of them share the message.
C6_EveryFailureReported ==
    Terminal =>
        /\ FallbackNoTrack => Has("error", "NoTranscriptAvailableIn")
        /\ PrimaryFailed => Has("error", "ErrorOccurred")
        /\ FallbackFailed => Has("error", "ErrorDuringTranslation")
        /\ HardFailure => Has("error", "UnexpectedErrorDuringTranslation")
        /\ ModelFailed =>
              /\ exc = "none"
              /\ \E i \in 1..Len(out) :
                    /\ out[i].kind = "error"
                    /\ out[i].msg \notin FetchAndTranslationMessages

(* C7 *)

\* C7: the prompt given to generate_content is the template followed by the
\* transcript extract_transcript_details returned; on the primary path that
\* transcript is the texts of the fetched track, in track order, one space
\* between neighbours, without the start times; and the summary rendered is
\* the text the model returned.
C7_PromptAndSummary ==
    \A m \in 1..Len(ModelCalls) :
        LET arg == ModelCalls[m].arg IN
        /\ Len(arg) = Len(prompt) + Len(ret.val)
        /\ SubSeq(arg, 1, Len(prompt)) = prompt
        /\ SubSeq(arg, Len(prompt) + 1, Len(arg)) = ret.val
        /\ PrimarySucceeded =>
              IsSpaceJoin(ret.val,
                          [i \in 1..Len(PrimaryCalls[1].value) |->
                              PrimaryCalls[1].value[i].text])
        /\ pc = "Done" =>
              /\ ModelCalls[m].outcome = "ok"
              /\ summary = ModelCalls[m].value
              /\ out[Len(out)] = [kind |-> "write", msg |-> "summary",
                                  arg |-> ModelCalls[m].value]
        /\ ModelCalls[m].outcome = "ok" => pc = "Done"

C7_Witness ==
    /\ PrimarySucceeded
    /\ Len(PrimaryCalls[1].value) = 2
    /\ pc = "Done"
    /\ Len(summary) > 0
    /\ Len(ret.val) = 3

(* C8 *)

\* C8: in one run the language-filtered fetch, the language-less fetch and
\* generate_content are each called at most once, and the translator at most
\* once per segment of the fallback track, the k-th call for the k-th segment.
C8_NoRetry ==
    /\ Len(PrimaryCalls) <= 1
    /\ Len(FallbackCalls) <= 1
    /\ Len(ModelCalls) <= 1
    /\ Len(TranslateCalls) > 0 =>
          /\ FallbackSucceeded
          /\ Len(TranslateCalls) <= Len(FallbackCalls[1].value)
          /\ \A k \in 1..Len(TranslateCalls) :
                TranslateCalls[k].arg = FallbackCalls[1].value[k].text

C8_Witness ==
    /\ Len(PrimaryCalls) = 1
    /\ Len(FallbackCalls) = 1
    /\ Len(TranslateCalls) = 2
    /\ SomeSkipped
    /\ ModelFailed

(* C9 *)

\* C9: when the translator raises anything but AttributeError on a segment,
\* that call is the last translator call of the run, the error with its cause
\* is rendered, extract_transcript_details returns None whatever was
\* translated before, and generate_content is never called.
C9_HardFailureAborts ==
    \A k \in 1..Len(TranslateCalls) :
        HardFailed(k) =>
            /\ k = Len(TranslateCalls)
            /\ pc \in {"Returned", "Failed"}
            /\ ret = None
            /\ Len(ModelCalls) = 0
            /\ HasWith("error", "UnexpectedErrorDuringTranslation",
                       TranslateCalls[k].outcome)

C9_Witness ==
    /\ Len(TranslateCalls) = 2
    /\ TranslateCalls[1].outcome = "ok"
    /\ Len(TranslateCalls[1].value) > 0
    /\ HardFailed(2)
    /\ pc = "Failed"

(* C10 *)

\* C10: when the primary fetch raises anything but NoTranscriptFound, the
\* generic error with its cause is rendered, None is returned, and neither
\* the language-less fetch nor the translator nor generate_content is called;
\* the fallback warning is rendered exactly when the primary fetch raised
\* NoTranscriptFound, and it is there before the language-less fetch is made.
C10_OtherFailureFails ==
    /\ PrimaryFailed =>
          /\ pc \in {"Returned", "Failed"}
          /\ ret = None
          /\ HasWith("error", "ErrorOccurred", PrimaryCalls[1].outcome)
          /\ Len(FallbackCalls) = 0
          /\ Len(TranslateCalls) = 0
          /\ Len(ModelCalls) = 0
    /\ Has("warning", "TranscriptNotAvailableIn") <=> PrimaryNoTrack
    /\ pc = "FetchingFallback" =>
          /\ Has("warning", "TranscriptNotAvailableIn")
          /\ Len(FallbackCalls) = 0
    /\ Len(FallbackCalls) > 0 => PrimaryNoTrack

C10_Witness ==
    /\ PrimaryFailed
    /\ pc = "Failed"

====
